---------------------------- MODULE Spec2Model ----------------------------
(***************************************************************************)
(* Model of the secret-sharing core of Taakad (src/unnamed/part_006):      *)
(* class ShamirSecretShare (splitSecret, reconstructSecret, modInverse,    *)
(* bigintPow) and class MPCFramework (encode, decode, secureEquality,      *)
(* secureAnd, secureAggregate and the party-share maps).                   *)
(*                                                                         *)
(* Scale.  The source computes with JavaScript BigInt over the 255-bit     *)
(* prime 2^255 - 19, writes shares as 64 hexadecimal digits (256 bits) and *)
(* converts a reconstructed BigInt to a double (53-bit significand).  TLC  *)
(* has 32-bit integers and enumerates states, so every width is divided    *)
(* by the same factor and the relations between them are kept:             *)
(*     PRIME   2^255 - 19        ->  2^3 - 1 = 7                           *)
(*     share string  16^64 = 2^256  ->  Radix^HexLen = 4^2 = 2^4           *)
(*     randomBytes(32), SHA-256     ->  values below Radix^HexLen          *)
(*     double significand 53 bits   ->  MantBits = 2 bits                  *)
(* so that, as in the source, PRIME is just below half of the string       *)
(* range and most field elements are not exactly representable numbers.    *)
(***************************************************************************)
EXTENDS Integers, Sequences, FiniteSets, TLC

\* ShamirSecretShare.PRIME (and the PRIME literals of encode, secureEquality)
PRIME == 7
\* the radix of share.toString(16) and of BigInt('0x' + ...)
Radix == 4
\* the width of padStart(64, '0'); also the digits of a 32-byte random / digest
HexLen == 2
\* the significand width of the number Number(bigint) returns
MantBits == 2

\* --- bounds of the model ---
\* longest argument list a caller builds
MaxArgs == 2
\* numeric arguments of a single encode call range over -MaxNum..MaxNum
MaxNum == 8
\* largest n and k of a direct splitSecret call
MaxShares == 3

(***************************************************************************)
(* JavaScript arithmetic                                                   *)
(***************************************************************************)
Abs(a) == IF a < 0 THEN -a ELSE a

\* BigInt a % b: the remainder has the sign of the dividend
JsRem(a, b) == IF a >= 0 THEN a % b ELSE -((-a) % b)

\* BigInt a / b: the quotient is truncated toward zero
JsDiv(a, b) == IF (a >= 0) = (b > 0) THEN Abs(a) \div Abs(b) ELSE -(Abs(a) \div Abs(b))

RECURSIVE Pow(_, _)
Pow(b, e) == IF e = 0 THEN 1 ELSE b * Pow(b, e - 1)

\* number of binary digits of a > 0
RECURSIVE BitLen(_)
BitLen(a) == IF a = 0 THEN 0 ELSE 1 + BitLen(a \div 2)

\* Number(b) for a BigInt b: the nearest number with a MantBits-bit
\* significand, ties to the even significand
ToNumber(b) ==
  LET a == Abs(b)
      e == IF BitLen(a) > MantBits THEN BitLen(a) - MantBits ELSE 0
      q == a \div Pow(2, e)
      r == a % Pow(2, e)
      half == IF e = 0 THEN 1 ELSE Pow(2, e - 1)
      up == e > 0 /\ (r > half \/ (r = half /\ q % 2 = 1))
      m == (IF up THEN q + 1 ELSE q) * Pow(2, e)
  IN  IF b < 0 THEN -m ELSE m

\* the integers a JavaScript number can hold exactly
IsNumber(v) == ToNumber(v) = v

(***************************************************************************)
(* Strings of digits: bigint.toString(16), padStart, BigInt('0x' + s)      *)
(***************************************************************************)
HexDigits == <<"0", "1", "2", "3">>

HexDigitSet == {HexDigits[d] : d \in 1..Radix}

DigitValueOf == [ch \in HexDigitSet |-> CHOOSE d \in 0..(Radix - 1) : HexDigits[d + 1] = ch]

DigitValue(ch) == DigitValueOf[ch]

IsHexDigit(ch) == ch \in HexDigitSet

RECURSIVE DigitsOf(_)
DigitsOf(a) ==
  IF a < Radix THEN <<HexDigits[a + 1]>>
  ELSE Append(DigitsOf(a \div Radix), HexDigits[(a % Radix) + 1])

\* b.toString(16): a minus sign, then the digits of |b|
ToHexString(b) == IF b < 0 THEN <<"-">> \o DigitsOf(-b) ELSE DigitsOf(b)

\* s.padStart(len, '0'): s itself when it is already len long or longer
PadStart(s, len) ==
  IF Len(s) >= len THEN s ELSE [i \in 1..(len - Len(s)) |-> "0"] \o s

\* share.toString(16).padStart(64, '0')
ShareString(b) == PadStart(ToHexString(b), HexLen)

\* the number a string of digits denotes, most significant digit first
HexValue(s) ==
  LET h[i \in 0..Len(s)] == IF i = 0 THEN 0 ELSE h[i - 1] * Radix + DigitValue(s[i])
  IN  h[Len(s)]

\* the characters StringToBigInt skips at the end of its argument
WhiteSpace == {" "}

\* s without its trailing white space
RECURSIVE TrimEnd(_)
TrimEnd(s) ==
  IF Len(s) = 0 THEN s
  ELSE IF s[Len(s)] \in WhiteSpace THEN TrimEnd(SubSeq(s, 1, Len(s) - 1))
  ELSE s

\* one or more hex digits and nothing else
IsHex(s) == Len(s) > 0 /\ \A i \in 1..Len(s) : IsHexDigit(s[i])

\* BigInt('0x' + s): trailing white space is skipped; a SyntaxError unless
\* what is left is one or more hex digits
ParseBigInt(s) ==
  IF IsHex(TrimEnd(s))
  THEN [ok |-> TRUE, val |-> HexValue(TrimEnd(s))]
  ELSE [ok |-> FALSE, val |-> 0]

\* BigInt('0x' + randomBytes(32).toString('hex')) % PRIME, over all draws
RandomCoeffs == {raw % PRIME : raw \in 0..(Pow(Radix, HexLen) - 1)}

\* the values of a SHA-256 digest read as '0x' + hex
Digests == 0..(Pow(Radix, HexLen) - 1)

(***************************************************************************)
(* class ShamirSecretShare                                                 *)
(***************************************************************************)
\* bigintPow(base, exp)
bigintPow(base, exp) ==
  IF exp = 0 THEN 1
  ELSE IF exp = 1 THEN base
  ELSE LET f[i \in 0..exp] == IF i = 0 THEN 1 ELSE JsRem(f[i - 1] * base, PRIME)
       IN  f[exp]

\* the inner loop of splitSecret: the polynomial at x, term by term
EvalPoly(coefficients, x) ==
  LET y[i \in 0..Len(coefficients)] ==
        IF i = 0 THEN 0
        ELSE JsRem(y[i - 1] + JsRem(coefficients[i] * bigintPow(x, i - 1), PRIME), PRIME)
  IN  y[Len(coefficients)]

\* splitSecret with the evaluation points starting at x = 0 instead of x = 1
splitSecretFromZero(secret, n, k, randomCoeffs) ==
  IF k > n THEN [kind |-> "error", err |-> "Threshold k must be <= n"]
  ELSE LET coefficients == <<secret>> \o randomCoeffs
       IN  [kind |-> "shares", shares |-> [x \in 1..n |-> EvalPoly(coefficients, x - 1)]]

\* splitSecret drawing no coefficient: the constant polynomial
splitSecretConstant(secret, n, k, randomCoeffs) ==
  IF k > n THEN [kind |-> "error", err |-> "Threshold k must be <= n"]
  ELSE [kind |-> "shares", shares |-> [x \in 1..n |-> EvalPoly(<<secret>>, x)]]

\* splitSecret refusing k = n as well as k > n
splitSecretStrict(secret, n, k, randomCoeffs) ==
  IF k >= n THEN [kind |-> "error", err |-> "Threshold k must be <= n"]
  ELSE LET coefficients == <<secret>> \o randomCoeffs
       IN  [kind |-> "shares", shares |-> [x \in 1..n |-> EvalPoly(coefficients, x)]]

\* splitSecret(secret, n, k); randomCoeffs are the k - 1 values drawn
splitSecret(secret, n, k, randomCoeffs) ==
  IF k > n THEN [kind |-> "error", err |-> "Threshold k must be <= n"]
  ELSE LET coefficients == <<secret>> \o randomCoeffs
       IN  [kind |-> "shares", shares |-> [x \in 1..n |-> EvalPoly(coefficients, x)]]

\* the while loop of modInverse
RECURSIVE EuclidLoop(_, _, _, _)
EuclidLoop(old_r, r, old_s, s) ==
  IF r = 0 THEN old_s
  ELSE LET quotient == JsDiv(old_r, r)
       IN  EuclidLoop(r, old_r - quotient * r, s, old_s - quotient * s)

\* modInverse(a)
modInverse(a) ==
  LET old_s == EuclidLoop(a, PRIME, 1, 0)
  IN  IF old_s < 0 THEN old_s + PRIME ELSE old_s

\* Lagrange with the numerator built from x_i where the source has x_j
LagrangeOwnPoint(i, m) ==
  LET num[j \in 0..m] ==
        IF j = 0 THEN 1
        ELSE IF j = i THEN num[j - 1]
        ELSE JsRem(num[j - 1] * JsRem(JsRem(0 - i, PRIME) + PRIME, PRIME), PRIME)
      den[j \in 0..m] ==
        IF j = 0 THEN 1
        ELSE IF j = i THEN den[j - 1]
        ELSE JsRem(den[j - 1] * JsRem(JsRem(i - j, PRIME) + PRIME, PRIME), PRIME)
  IN  JsRem(num[m] * modInverse(den[m]), PRIME)

\* the Lagrange coefficient of share i among m shares, at x = 0: the inner
\* loop over j of reconstructSecret and the line that follows it
Lagrange(i, m) ==
  LET num[j \in 0..m] ==
        IF j = 0 THEN 1
        ELSE IF j = i THEN num[j - 1]
        ELSE JsRem(num[j - 1] * JsRem(JsRem(0 - j, PRIME) + PRIME, PRIME), PRIME)
      den[j \in 0..m] ==
        IF j = 0 THEN 1
        ELSE IF j = i THEN den[j - 1]
        ELSE JsRem(den[j - 1] * JsRem(JsRem(i - j, PRIME) + PRIME, PRIME), PRIME)
  IN  JsRem(num[m] * modInverse(den[m]), PRIME)

\* the coefficients depend on the number of shares only: computed once
LagrangeAt == [m \in 2..(MaxShares + 1) |-> [i \in 1..m |-> Lagrange(i, m)]]

\* reconstructSecret accepting a single share
reconstructSecretLoose(shares) ==
  IF Len(shares) < 1 THEN [kind |-> "error", err |-> "Need at least 2 shares"]
  ELSE LET secret[i \in 0..Len(shares)] ==
             IF i = 0 THEN 0
             ELSE JsRem(secret[i - 1] + JsRem(shares[i] * Lagrange(i, Len(shares)), PRIME), PRIME)
           s == secret[Len(shares)]
       IN  [kind |-> "bigint", val |-> IF s < 0 THEN s + PRIME ELSE s]

\* reconstructSecret(shares)
reconstructSecret(shares) ==
  IF Len(shares) < 2 THEN [kind |-> "error", err |-> "Need at least 2 shares"]
  ELSE LET secret[i \in 0..Len(shares)] ==
             IF i = 0 THEN 0
             ELSE JsRem(secret[i - 1] + JsRem(shares[i] * LagrangeAt[Len(shares)][i], PRIME), PRIME)
           s == secret[Len(shares)]
       IN  [kind |-> "bigint", val |-> IF s < 0 THEN s + PRIME ELSE s]


(***************************************************************************)
(* class MPCFramework                                                      *)
(*                                                                         *)
(* An engine value eng is the state of one MPCFramework that outlives a    *)
(* call: the two party-share maps (keyed shareId + ':0', shareId + ':1')   *)
(* and the source of fresh ids (uuidv4()).  Each method is an operator     *)
(* from the engine and the arguments to the engine after the call and      *)
(* what the call returned or threw.  metadata.timestamp (Date.now()) is    *)
(* written at creation and read by no method but auditTrail, which copies  *)
(* it; the calls of a behaviour are made within one tick of the clock.     *)
(***************************************************************************)
\* Date.now()
Now == 0

\* map.set(key, v)
MapSet(m, key, v) == (key :> v) @@ m

SecureValue(id, share1, share2, fieldName) ==
  [id |-> id,
   type |-> "MPC_SHARE",
   shares |-> [party1 |-> ShareString(share1), party2 |-> ShareString(share2)],
   metadata |-> [fieldName |-> fieldName, timestamp |-> Now,
                 partyCount |-> 2, threshold |-> 2]]

Thrown(eng, name) == [eng |-> eng, ret |-> [kind |-> "error", err |-> name]]

\* the secret encode derives from its argument: a string is hashed and
\* reduced, a number is used as it is
SecretValue(value) ==
  IF value.kind = "string" THEN JsRem(value.v, PRIME) ELSE value.v

\* encode mixing the random draw into the secret of a string (a salted hash)
encodeSalted(eng, value, fieldName, coeff) ==
  LET secretValue == IF value.kind = "string" THEN JsRem(value.v + coeff, PRIME) ELSE value.v
      shares == splitSecret(secretValue, 2, 2, <<coeff>>).shares
      shareId == eng.nextId
  IN  [eng |-> [party1Shares |-> MapSet(eng.party1Shares, <<shareId, 0>>, shares[1]),
                party2Shares |-> MapSet(eng.party2Shares, <<shareId, 1>>, shares[2]),
                nextId |-> eng.nextId + 1],
       ret |-> [kind |-> "record",
                rec |-> SecureValue(shareId, shares[1], shares[2], fieldName)]]

\* encode(value, fieldName); coeff is the coefficient splitSecret draws
encode(eng, value, fieldName, coeff) ==
  LET secretValue == SecretValue(value)
      shares == splitSecret(secretValue, 2, 2, <<coeff>>).shares
      shareId == eng.nextId
  IN  [eng |-> [party1Shares |-> MapSet(eng.party1Shares, <<shareId, 0>>, shares[1]),
                party2Shares |-> MapSet(eng.party2Shares, <<shareId, 1>>, shares[2]),
                nextId |-> eng.nextId + 1],
       ret |-> [kind |-> "record",
                rec |-> SecureValue(shareId, shares[1], shares[2], fieldName)]]

\* encodeBoolean(value, fieldName)
encodeBoolean(eng, value, fieldName, coeff) ==
  encode(eng, [kind |-> "number", v |-> IF value THEN 1 ELSE 0], fieldName, coeff)

\* decode reading shares.party1 for both shares
decodeSameShare(secureValue) ==
  LET share1 == ParseBigInt(secureValue.shares.party1)
  IN  IF ~share1.ok THEN [kind |-> "error", err |-> "SyntaxError"]
      ELSE LET reconstructed == reconstructSecret(<<share1.val, share1.val>>)
           IN  [kind |-> "number", val |-> ToNumber(reconstructed.val)]

\* decode(secureValue): the number, or what is thrown
decode(secureValue) ==
  LET share1 == ParseBigInt(secureValue.shares.party1)
      share2 == ParseBigInt(secureValue.shares.party2)
  IN  IF ~share1.ok \/ ~share2.ok THEN [kind |-> "error", err |-> "SyntaxError"]
      ELSE LET reconstructed == reconstructSecret(<<share1.val, share2.val>>)
           IN  [kind |-> "number", val |-> ToNumber(reconstructed.val)]

\* secureEquality declaring equality when either difference is zero
secureEqualityEither(eng, sv1, sv2, coeff) ==
  LET a1 == ParseBigInt(sv1.shares.party1)
      a2 == ParseBigInt(sv1.shares.party2)
      b1 == ParseBigInt(sv2.shares.party1)
      b2 == ParseBigInt(sv2.shares.party2)
  IN  IF ~a1.ok \/ ~a2.ok \/ ~b1.ok \/ ~b2.ok THEN Thrown(eng, "SyntaxError")
      ELSE LET diff1 == JsRem(a1.val - b1.val + PRIME, PRIME)
               diff2 == JsRem(a2.val - b2.val + PRIME, PRIME)
               isEqual == IF diff1 = 0 \/ diff2 = 0 THEN 1 ELSE 0
           IN  encodeBoolean(eng, isEqual = 1,
                             sv1.metadata.fieldName \o "_eq_" \o sv2.metadata.fieldName,
                             coeff)

\* secureEquality writing its result over sv1: the record returned keeps sv1's id
secureEqualityInPlace(eng, sv1, sv2, coeff) ==
  LET a1 == ParseBigInt(sv1.shares.party1)
      a2 == ParseBigInt(sv1.shares.party2)
      b1 == ParseBigInt(sv2.shares.party1)
      b2 == ParseBigInt(sv2.shares.party2)
  IN  IF ~a1.ok \/ ~a2.ok \/ ~b1.ok \/ ~b2.ok THEN Thrown(eng, "SyntaxError")
      ELSE LET diff1 == JsRem(a1.val - b1.val + PRIME, PRIME)
               diff2 == JsRem(a2.val - b2.val + PRIME, PRIME)
               isEqual == IF diff1 = 0 /\ diff2 = 0 THEN 1 ELSE 0
               out == encodeBoolean(eng, isEqual = 1,
                                    sv1.metadata.fieldName \o "_eq_" \o sv2.metadata.fieldName,
                                    coeff)
           IN  [eng |-> out.eng,
                ret |-> [kind |-> "record", rec |-> [out.ret.rec EXCEPT !.id = sv1.id]]]

\* secureEquality(sv1, sv2)
secureEquality(eng, sv1, sv2, coeff) ==
  LET a1 == ParseBigInt(sv1.shares.party1)
      a2 == ParseBigInt(sv1.shares.party2)
      b1 == ParseBigInt(sv2.shares.party1)
      b2 == ParseBigInt(sv2.shares.party2)
  IN  IF ~a1.ok \/ ~a2.ok \/ ~b1.ok \/ ~b2.ok THEN Thrown(eng, "SyntaxError")
      ELSE LET diff1 == JsRem(a1.val - b1.val + PRIME, PRIME)
               diff2 == JsRem(a2.val - b2.val + PRIME, PRIME)
               isEqual == IF diff1 = 0 /\ diff2 = 0 THEN 1 ELSE 0
           IN  encodeBoolean(eng, isEqual = 1,
                             sv1.metadata.fieldName \o "_eq_" \o sv2.metadata.fieldName,
                             coeff)

\* the loop of secureAnd keeping only the last record's bit
AndLoopLastOnly(booleanShares) ==
  LET result[i \in 0..Len(booleanShares)] ==
        IF i = 0 THEN 1
        ELSE LET before == result[i - 1]
                 value == decode(booleanShares[i])
             IN  IF before = -1 \/ value.kind = "error" THEN -1
                 ELSE IF value.val = 1 THEN 1 ELSE 0
  IN  result[Len(booleanShares)]

\* the loop of secureAnd: result after all iterations, -1 once decode has thrown
AndLoop(booleanShares) ==
  LET result[i \in 0..Len(booleanShares)] ==
        IF i = 0 THEN 1
        ELSE LET before == result[i - 1]
                 value == decode(booleanShares[i])
             IN  IF before = -1 \/ value.kind = "error" THEN -1
                 ELSE IF before = 1 /\ value.val = 1 THEN 1 ELSE 0
  IN  result[Len(booleanShares)]

\* the return statement of secureAnd, given what the loop left in result
AndReturn(eng, result, coeff) ==
  IF result = -1 THEN Thrown(eng, "SyntaxError")
  ELSE encodeBoolean(eng, result = 1, "combined_result", coeff)

\* secureAnd(...booleanShares)
secureAnd(eng, booleanShares, coeff) == AndReturn(eng, AndLoop(booleanShares), coeff)

\* the sum of the values a map holds
RECURSIVE SumOfMap(_)
SumOfMap(m) ==
  IF DOMAIN m = {} THEN 0
  ELSE LET key == CHOOSE x \in DOMAIN m : TRUE
       IN  m[key] + SumOfMap([x \in DOMAIN m \ {key} |-> m[x]])

\* secureAggregate adding up the shares the engine has stored instead of
\* those of its argument
secureAggregateStored(eng, secureValues) ==
  LET n == Len(secureValues)
      bad == \E i \in 1..n : ~ParseBigInt(secureValues[i].shares.party1).ok
                             \/ ~ParseBigInt(secureValues[i].shares.party2).ok
      sum == SumOfMap(eng.party1Shares) + SumOfMap(eng.party2Shares)
      resultId == eng.nextId
      sum1 == JsDiv(sum, 2)
      sum2 == sum - sum1
  IN  IF bad THEN Thrown(eng, "SyntaxError")
      ELSE [eng |-> [party1Shares |-> MapSet(eng.party1Shares, <<resultId, 0>>, sum1),
                     party2Shares |-> MapSet(eng.party2Shares, <<resultId, 1>>, sum2),
                     nextId |-> eng.nextId + 1],
            ret |-> [kind |-> "record",
                     rec |-> SecureValue(resultId, sum1, sum2, "aggregated_sum")]]

\* secureAggregate reducing the sum modulo PRIME before halving it
secureAggregateReduced(eng, secureValues) ==
  LET n == Len(secureValues)
      bad == \E i \in 1..n : ~ParseBigInt(secureValues[i].shares.party1).ok
                             \/ ~ParseBigInt(secureValues[i].shares.party2).ok
      acc[i \in 0..n] ==
        IF i = 0 THEN 0
        ELSE acc[i - 1] + ParseBigInt(secureValues[i].shares.party1).val
                        + ParseBigInt(secureValues[i].shares.party2).val
      sum == JsRem(acc[n], PRIME)
      resultId == eng.nextId
      sum1 == JsDiv(sum, 2)
      sum2 == sum - sum1
  IN  IF bad THEN Thrown(eng, "SyntaxError")
      ELSE [eng |-> [party1Shares |-> MapSet(eng.party1Shares, <<resultId, 0>>, sum1),
                     party2Shares |-> MapSet(eng.party2Shares, <<resultId, 1>>, sum2),
                     nextId |-> eng.nextId + 1],
            ret |-> [kind |-> "record",
                     rec |-> SecureValue(resultId, sum1, sum2, "aggregated_sum")]]

\* secureAggregate(secureValues)
secureAggregate(eng, secureValues) ==
  LET n == Len(secureValues)
      bad == \E i \in 1..n : ~ParseBigInt(secureValues[i].shares.party1).ok
                             \/ ~ParseBigInt(secureValues[i].shares.party2).ok
      acc[i \in 0..n] ==
        IF i = 0 THEN 0
        ELSE acc[i - 1] + ParseBigInt(secureValues[i].shares.party1).val
                        + ParseBigInt(secureValues[i].shares.party2).val
      sum == acc[n]
      resultId == eng.nextId
      sum1 == JsDiv(sum, 2)
      sum2 == sum - sum1
  IN  IF bad THEN Thrown(eng, "SyntaxError")
      ELSE [eng |-> [party1Shares |-> MapSet(eng.party1Shares, <<resultId, 0>>, sum1),
                     party2Shares |-> MapSet(eng.party2Shares, <<resultId, 1>>, sum2),
                     nextId |-> eng.nextId + 1],
            ret |-> [kind |-> "record",
                     rec |-> SecureValue(resultId, sum1, sum2, "aggregated_sum")]]

\* auditTrail copying a share into its output
auditTrailWithShare(secureValue) ==
  [valueId |-> secureValue.id,
   field |-> secureValue.metadata.fieldName,
   timestamp |-> secureValue.metadata.timestamp,
   partiesInvolved |-> secureValue.metadata.partyCount,
   threshold |-> secureValue.metadata.threshold,
   verificationStatus |-> secureValue.shares.party1,
   reconstructionStatus |-> "Requires threshold consent from all parties"]

\* auditTrail(secureValue)
auditTrail(secureValue) ==
  [valueId |-> secureValue.id,
   field |-> secureValue.metadata.fieldName,
   timestamp |-> secureValue.metadata.timestamp,
   partiesInvolved |-> secureValue.metadata.partyCount,
   threshold |-> secureValue.metadata.threshold,
   verificationStatus |-> "Shares distributed across secure parties",
   reconstructionStatus |-> "Requires threshold consent from all parties"]

\* what a getter hands back: a string, or undefined
Undefined == [kind |-> "undefined"]

\* getParty1Share(shareId): the stored share is tested for truthiness, and
\* the bigint 0 is falsy
getParty1Share(eng, shareId) ==
  LET key == <<shareId, 0>>
  IN  IF key \in DOMAIN eng.party1Shares /\ eng.party1Shares[key] # 0
      THEN [kind |-> "string", v |-> ToHexString(eng.party1Shares[key])]
      ELSE Undefined

\* getParty2Share(shareId)
getParty2Share(eng, shareId) ==
  LET key == <<shareId, 1>>
  IN  IF key \in DOMAIN eng.party2Shares /\ eng.party2Shares[key] # 0
      THEN [kind |-> "string", v |-> ToHexString(eng.party2Shares[key])]
      ELSE Undefined

(***************************************************************************)
(* The modulus as the source writes it: BigInt('5789...9949'), three times *)
(***************************************************************************)
\* the decimal digits of ShamirSecretShare.PRIME
PrimeLiteral ==
  <<5, 7, 8, 9, 6, 0, 4, 4, 6, 1, 8, 6, 5, 8, 0, 9, 7, 7, 1, 1, 7, 8, 5, 4, 9, 2,
     5, 0, 4, 3, 4, 3, 9, 5, 3, 9, 2, 6, 6, 3, 4, 9, 9, 2, 3, 3, 2, 8, 2, 0, 2, 8,
     2, 0, 1, 9, 7, 2, 8, 7, 9, 2, 0, 0, 3, 9, 5, 6, 5, 6, 4, 8, 1, 9, 9, 4, 9>>

\* the decimal digits of the PRIME local to encode
EncodePrimeLiteral ==
  <<5, 7, 8, 9, 6, 0, 4, 4, 6, 1, 8, 6, 5, 8, 0, 9, 7, 7, 1, 1, 7, 8, 5, 4, 9, 2,
     5, 0, 4, 3, 4, 3, 9, 5, 3, 9, 2, 6, 6, 3, 4, 9, 9, 2, 3, 3, 2, 8, 2, 0, 2, 8,
     2, 0, 1, 9, 7, 2, 8, 7, 9, 2, 0, 0, 3, 9, 5, 6, 5, 6, 4, 8, 1, 9, 9, 4, 9>>

\* the decimal digits of the PRIME local to secureEquality
EqualityPrimeLiteral ==
  <<5, 7, 8, 9, 6, 0, 4, 4, 6, 1, 8, 6, 5, 8, 0, 9, 7, 7, 1, 1, 7, 8, 5, 4, 9, 2,
     5, 0, 4, 3, 4, 3, 9, 5, 3, 9, 2, 6, 6, 3, 4, 9, 9, 2, 3, 3, 2, 8, 2, 0, 2, 8,
     2, 0, 1, 9, 7, 2, 8, 7, 9, 2, 0, 0, 3, 9, 5, 6, 5, 6, 4, 8, 1, 9, 9, 4, 9>>

\* the moduli a call of an engine method computes with: splitSecret and
\* reconstructSecret read the class constant, encode and secureEquality
\* declare their own
ModuliUsed(op) ==
  CASE op = "encode" -> {EncodePrimeLiteral, PrimeLiteral}
    [] op = "decode" -> {PrimeLiteral}
    [] op = "secureEquality" -> {EqualityPrimeLiteral, EncodePrimeLiteral, PrimeLiteral}
    [] op = "secureAnd" -> {EncodePrimeLiteral, PrimeLiteral}
    [] OTHER -> {}

\* a bigint of up to 272 bits: LimbCount limbs of LimbBits bits, least first
LimbBits == 16
LimbCount == 17
Limb == Pow(2, LimbBits)

\* the limbs of v * m + carry from limb i on, for a bigint v and small m
RECURSIVE MulAddFrom(_, _, _, _)
MulAddFrom(v, m, carry, i) ==
  IF i > LimbCount THEN <<>>
  ELSE <<(v[i] * m + carry) % Limb>>
         \o MulAddFrom(v, m, (v[i] * m + carry) \div Limb, i + 1)

\* v * m + a
BigMulAdd(v, m, a) == MulAddFrom(v, m, a, 1)

BigZero == [i \in 1..LimbCount |-> 0]

\* the bigint of digits[k..], acc being the bigint of the digits before
RECURSIVE DecimalFrom(_, _, _)
DecimalFrom(digits, k, acc) ==
  IF k > Len(digits) \/ Len(acc) # LimbCount THEN acc
  ELSE DecimalFrom(digits, k + 1, BigMulAdd(acc, 10, digits[k]))

\* BigInt(decimal string)
BigOfDecimal(digits) == DecimalFrom(digits, 1, BigZero)

\* 2^e
BigPow2(e) ==
  [i \in 1..LimbCount |-> IF i = (e \div LimbBits) + 1 THEN Pow(2, e % LimbBits) ELSE 0]

\* the limbs of a - b - borrow from limb i on, for bigints a >= b
RECURSIVE SubFrom(_, _, _, _)
SubFrom(a, b, borrow, i) ==
  IF i > LimbCount THEN <<>>
  ELSE <<(a[i] - b[i] - borrow + Limb) % Limb>>
         \o SubFrom(a, b, IF a[i] - b[i] - borrow < 0 THEN 1 ELSE 0, i + 1)

\* a - b
BigSub(a, b) == SubFrom(a, b, 0, 1)

\* the secp256k1 field prime 2^256 - 2^32 - 977
Secp256k1Prime ==
  BigSub(BigSub(BigPow2(256), BigPow2(32)), BigMulAdd(BigZero, 0, 977))

\* 2^255 - 19
Curve25519Prime == BigSub(BigPow2(255), BigMulAdd(BigZero, 0, 19))

(***************************************************************************)
(* State: one engine and the caller that drives it                         *)
(***************************************************************************)
VARIABLES
  party1Shares,   \* MPCFramework.party1Shares
  party2Shares,   \* MPCFramework.party2Shares
  nextId,         \* the next id uuidv4() hands out
  args,           \* the records the caller holds, in the order it passes them
  origin,         \* origin[i]: the value args[i] was encoded from
  call,           \* the last call made: its name and scalar arguments
  ret,            \* what the last call returned or threw
  identities,     \* the rows of the identities table, in id order
  handlers,       \* the route handlers waiting on the database, in arrival order
  responses,      \* the responses sent so far, in the order they were sent
  users,          \* the rows of the users table, by email
  localStorage,   \* the browser's localStorage: authState and taakad_token
  tabs,           \* the state of the app in each tab of the browser
  issued,         \* the JWT verify-2fa issued last, and to whom
  sent,           \* the request a page sent last, with its headers
  loggedOut       \* a logout happened and no 2FA verification succeeded since

vars == <<party1Shares, party2Shares, nextId, args, origin, call, ret,
          identities, handlers, responses,
          users, localStorage, tabs, issued, sent, loggedOut>>

\* the caller of the engine, and what is outside it
engineVars == <<party1Shares, party2Shares, nextId, args, origin, call, ret>>
serverVars == <<identities, handlers, responses>>
clientVars == <<users, localStorage, tabs, issued, sent, loggedOut>>

\* a value that is not there: null, undefined, a missing key
None == [kind |-> "none"]

\* the tabs of the browser
Tabs == {"tab1", "tab2"}

\* App and AuthPage as they mount when nothing is saved
FreshTab ==
  [auth |-> [isAuthenticated |-> FALSE, email |-> None],
   step |-> "credentials",
   email |-> None]

\* no account yet, an empty localStorage, every tab freshly loaded
NoClients ==
  /\ users = <<>>
  /\ localStorage = [authState |-> None, taakad_token |-> None]
  /\ tabs = [tab \in Tabs |-> FreshTab]
  /\ issued = None
  /\ sent = None
  /\ loggedOut = FALSE

Engine == [party1Shares |-> party1Shares, party2Shares |-> party2Shares, nextId |-> nextId]

\* the engine after a call
SetEngine(eng) ==
  /\ party1Shares' = eng.party1Shares
  /\ party2Shares' = eng.party2Shares
  /\ nextId' = eng.nextId

Num(n) == [kind |-> "number", v |-> n]
Str(digest) == [kind |-> "string", v |-> digest]

\* numbers a caller can pass: the integers a JavaScript number holds exactly
FieldNumbers == {n \in 0..(PRIME - 1) : IsNumber(n)}
WideNumbers == {n \in (-MaxNum)..MaxNum : IsNumber(n)}

Init ==
  /\ party1Shares = <<>>
  /\ party2Shares = <<>>
  /\ nextId = 1
  /\ args = <<>>
  /\ origin = <<>>
  /\ call = [op |-> "none"]
  /\ ret = [kind |-> "none"]
  /\ identities = <<>>
  /\ handlers = <<>>
  /\ responses = <<>>
  /\ NoClients

(***************************************************************************)
(* The caller's steps.  A step that calls the engine is the whole call.    *)
(***************************************************************************)
\* the caller is still building its argument list: it encodes up to MaxArgs
\* values, then makes one call on the records it holds
Building == call.op \in {"none", "encode"}

\* what a call leaves in the caller's hands
Returned(op, at, out) ==
  /\ SetEngine(out.eng)
  /\ call' = [op |-> op, at |-> at]
  /\ ret' = out.ret
  /\ UNCHANGED <<serverVars, clientVars>>

\* the caller appends the record encode returned to its arguments
Encoded(value, out) ==
  /\ Returned("encode", 0, out)
  /\ args' = Append(args, out.ret.rec)
  /\ origin' = Append(origin, value)

\* r = mpc.encode(n, "f") with n a field-sized number; r joins the arguments
Encode ==
  /\ Building
  /\ Len(args) < MaxArgs
  /\ \E n \in FieldNumbers, coeff \in RandomCoeffs :
       Encoded(Num(n), encode(Engine, Num(n), "f", coeff))

\* r = mpc.encode(value, "f") with any number or string, as the first call
EncodeAny ==
  /\ args = <<>>
  /\ nextId = 1
  /\ \E value \in {Num(n) : n \in WideNumbers} \cup {Str(d) : d \in Digests},
        coeff \in RandomCoeffs :
       Encoded(value, encode(Engine, value, "f", coeff))

\* mpc.decode(args[i])
Decode ==
  \E i \in 1..Len(args) :
    /\ Building
    /\ Returned("decode", i, [eng |-> Engine, ret |-> decode(args[i])])
    /\ UNCHANGED <<args, origin>>

\* mpc.secureEquality(args[1], args[2])
SecureEquality ==
  /\ Building
  /\ Len(args) = 2
  /\ \E coeff \in RandomCoeffs :
       Returned("secureEquality", 0, secureEquality(Engine, args[1], args[2], coeff))
  /\ UNCHANGED <<args, origin>>

\* the return statement of secureAnd, for every coefficient encode may draw
AndReturned(result) ==
  \E coeff \in RandomCoeffs :
    Returned("secureAnd", 0, AndReturn(Engine, result, coeff))

\* mpc.secureAnd(...args): the loop, then the return statement
SecureAnd ==
  /\ Building
  /\ AndReturned(AndLoop(args))
  /\ UNCHANGED <<args, origin>>

\* mpc.secureAggregate(args)
SecureAggregate ==
  /\ Building
  /\ Returned("secureAggregate", 0, secureAggregate(Engine, args))
  /\ UNCHANGED <<args, origin>>

Next ==
  \/ Encode
  \/ Decode
  \/ SecureEquality
  \/ SecureAnd
  \/ SecureAggregate

\* the engine under argument lists of up to MaxArgs records
Spec == Init /\ [][Next]_vars

\* mpc.getParty1Share(id), for the ids handed out and the next one
GetParty1Share ==
  \E shareId \in 1..nextId :
    /\ Building
    /\ Returned("getParty1Share", shareId,
                [eng |-> Engine, ret |-> getParty1Share(Engine, shareId)])
    /\ UNCHANGED <<args, origin>>

\* mpc.getParty2Share(id)
GetParty2Share ==
  \E shareId \in 1..nextId :
    /\ Building
    /\ Returned("getParty2Share", shareId,
                [eng |-> Engine, ret |-> getParty2Share(Engine, shareId)])
    /\ UNCHANGED <<args, origin>>

NextShares ==
  \/ Encode
  \/ GetParty1Share
  \/ GetParty2Share

\* a caller that encodes up to MaxArgs numbers and asks for a stored share
SpecShares == Init /\ [][NextShares]_vars

\* mpc.encode(code, "verificationCode") with a string: the stored code and
\* the code the client provides (the two records of the checkout comparison)
EncodeString ==
  /\ Building
  /\ Len(args) < 2
  /\ \E d \in Digests, coeff \in RandomCoeffs :
       Encoded(Str(d), encode(Engine, Str(d), "verificationCode", coeff))

NextStrings ==
  \/ EncodeString
  \/ Decode

\* two encodes of strings, then decode
SpecStrings == Init /\ [][NextStrings]_vars

\* numbers whose records do and do not parse: the shares of -1 are negative
\* when the coefficient drawn is 0, and field elements otherwise
SignedNumbers == {-1, 1}

\* r = mpc.encode(n, "f") with n = -1 or 1; r joins the arguments
EncodeSigned ==
  /\ Building
  /\ Len(args) < MaxArgs
  /\ \E n \in SignedNumbers, coeff \in RandomCoeffs :
       Encoded(Num(n), encode(Engine, Num(n), "f", coeff))

\* r = mpc.encode(1, "f"), a flag that is set; r joins the arguments
EncodeFlag ==
  /\ Building
  /\ Len(args) < MaxArgs
  /\ \E coeff \in RandomCoeffs : Encoded(Num(1), encode(Engine, Num(1), "f", coeff))

\* another request's mpc.encode(1, "g") on the same engine (mpc is a
\* singleton), once, at any point while the caller builds its arguments; the
\* caller never holds that record
OtherEncode ==
  /\ Building
  /\ nextId = Len(args) + 1
  /\ \E coeff \in RandomCoeffs : SetEngine(encode(Engine, Num(1), "g", coeff).eng)
  /\ UNCHANGED <<args, origin, call, ret>>
  /\ UNCHANGED <<serverVars, clientVars>>

\* mpc.auditTrail(args[i])
AuditTrail ==
  \E i \in 1..Len(args) :
    /\ Building
    /\ Returned("auditTrail", i,
                [eng |-> Engine, ret |-> [kind |-> "audit", out |-> auditTrail(args[i])]])
    /\ UNCHANGED <<args, origin>>

NextSession ==
  \/ EncodeFlag
  \/ OtherEncode
  \/ Decode
  \/ AuditTrail
  \/ SecureEquality
  \/ SecureAnd
  \/ SecureAggregate

\* a caller's calls on an engine another request uses too
SpecSession == Init /\ [][NextSession]_vars

NextCodec ==
  \/ EncodeAny
  \/ Decode

\* one encode of any value, then decode
SpecCodec == Init /\ [][NextCodec]_vars

(***************************************************************************)
(* Direct use of ShamirSecretShare                                         *)
(***************************************************************************)
RECURSIVE SeqsOver(_, _)
SeqsOver(S, n) ==
  IF n = 0 THEN {<<>>}
  ELSE {Append(q, x) : q \in SeqsOver(S, n - 1), x \in S}

\* shares = shamir.splitSecret(secret, n, k)
SplitSecret ==
  /\ call.op = "none"
  /\ args = <<>>
  /\ \E secret \in (-MaxNum)..MaxNum, n \in 1..MaxShares, k \in 1..MaxShares :
       \E randomCoeffs \in SeqsOver(RandomCoeffs, IF k > n THEN 0 ELSE k - 1) :
         /\ call' = [op |-> "splitSecret", secret |-> secret, n |-> n, k |-> k,
                     coeffs |-> randomCoeffs]
         /\ ret' = splitSecret(secret, n, k, randomCoeffs)
  /\ UNCHANGED <<party1Shares, party2Shares, nextId, args, origin>>
  /\ UNCHANGED <<serverVars, clientVars>>

Reverse(q) == [i \in 1..Len(q) |-> q[Len(q) + 1 - i]]

\* shamir.reconstructSecret of the first m shares of the last split, in
\* order or reversed
ReconstructSecret ==
  /\ call.op = "splitSecret"
  /\ ret.kind = "shares"
  /\ \E m \in 0..Len(ret.shares), reversed \in BOOLEAN :
       LET given == SubSeq(ret.shares, 1, m)
           shares == IF reversed THEN Reverse(given) ELSE given
       IN  /\ call' = [op |-> "reconstructSecret", secret |-> call.secret, n |-> call.n,
                       k |-> call.k, coeffs |-> call.coeffs, m |-> m,
                       inOrder |-> (shares = given)]
           /\ ret' = reconstructSecret(shares)
  /\ UNCHANGED <<party1Shares, party2Shares, nextId, args, origin>>
  /\ UNCHANGED <<serverVars, clientVars>>

NextShamir ==
  \/ SplitSecret
  \/ ReconstructSecret

\* splitSecret, then reconstructSecret
SpecShamir == Init /\ [][NextShamir]_vars

\* share strings of a record read back from storage: a field element, one
\* followed by white space, one preceded by it, one with a letter that is
\* no digit
StoredStrings == {<<"0", "3">>, <<"3", " ">>, <<" ", "3">>, <<"3", "x">>}

\* the caller takes a record from storage (storedData.verificationCode): a
\* record of an earlier process, with whatever strings the store holds
LoadStored ==
  /\ Building
  /\ Len(args) < MaxArgs
  /\ \E s \in StoredStrings :
       /\ args' = Append(args, [SecureValue(0, 0, 1, "verificationCode")
                                  EXCEPT !.shares.party1 = s])
       /\ origin' = Append(origin, [kind |-> "stored", v |-> s])
  /\ UNCHANGED <<party1Shares, party2Shares, nextId, call, ret>>
  /\ UNCHANGED <<serverVars, clientVars>>

NextFailures ==
  \/ EncodeSigned
  \/ LoadStored
  \/ Decode
  \/ SecureEquality
  \/ SecureAnd
  \/ SecureAggregate
  \/ SplitSecret
  \/ ReconstructSecret

\* every operation that can throw, on arguments that make it throw or not
SpecFailures == Init /\ [][NextFailures]_vars

(***************************************************************************)
(* Properties                                                              *)
(***************************************************************************)
IsNum(r, n) == r = [kind |-> "number", val |-> n]

\* the record a call returned decodes to the number n
RetDecodesTo(n) == ret.kind = "record" /\ IsNum(decode(ret.rec), n)

\* args[i] was encoded from the number n
FromNumber(i, n) == origin[i] = Num(n)

\* reconstructSecret was given the two shares of a (2,2) split, in order
Reconstructed22 ==
  /\ call.op = "reconstructSecret"
  /\ call.n = 2 /\ call.k = 2 /\ call.m = 2
  /\ call.inOrder

\* C1: for every secret s in [0, P) and every random coefficient,
\* reconstructSecret of the two shares of splitSecret(s, 2, 2), in order,
\* returns exactly s.
ThresholdCorrect ==
  (Reconstructed22 /\ call.secret \in 0..(PRIME - 1))
    => ret = [kind |-> "bigint", val |-> call.secret]

ThresholdCorrectWitness ==
  /\ Reconstructed22
  /\ call.secret = 5 /\ call.coeffs = <<3>>
  /\ ret = [kind |-> "bigint", val |-> 5]

\* C2: for every number n with 0 <= n < P and every random coefficient,
\* decode(encode(n, f)) equals n.
RoundTrip ==
  (call.op = "decode" /\ origin[call.at].kind = "number"
     /\ origin[call.at].v \in 0..(PRIME - 1))
    => IsNum(ret, origin[call.at].v)

RoundTripWitness ==
  /\ call.op = "decode"
  /\ FromNumber(call.at, 6)
  /\ args[call.at].shares = [party1 |-> <<"0", "2">>, party2 |-> <<"1", "1">>]
  /\ IsNum(ret, 6)

EqualityOfEqual ==
  (call.op = "secureEquality" /\ origin[1] = origin[2] /\ args[1].id # args[2].id)
    => RetDecodesTo(1)

\* C5: for x # y in [0, P) secureEquality(encode(x), encode(y)) returns a
\* record that decodes to 0, and whenever secureEquality returns a record
\* decoding to 1 its two input records decode to the same value.
EqualityOfDifferent ==
  call.op = "secureEquality"
    => /\ origin[1].v # origin[2].v => RetDecodesTo(0)
       /\ RetDecodesTo(1) => decode(args[1]) = decode(args[2])

\* different values whose party-1 shares coincide: only party 2 tells them apart
EqualityOfDifferentWitness ==
  /\ call.op = "secureEquality"
  /\ origin[1].v # origin[2].v
  /\ args[1].shares.party1 = args[2].shares.party1
  /\ RetDecodesTo(0)

RECURSIVE SumOrigin(_)
SumOrigin(i) == IF i = 0 THEN 0 ELSE SumOrigin(i - 1) + origin[i].v

\* C6: for records encoded from non-negative integers x1..xn (n >= 1),
\* decode(secureAggregate([r1..rn])) equals the plain sum x1 + ... + xn.
AggregateIsSum ==
  (call.op = "secureAggregate" /\ Len(args) >= 1)
    => RetDecodesTo(SumOrigin(Len(args)))

\* C7: for a non-empty sequence of records, secureAnd returns a record that
\* decodes to 1 iff every input record decodes to 1, and to 0 otherwise.
AndIsConjunction ==
  (call.op = "secureAnd" /\ Len(args) >= 1)
    => IF \A i \in 1..Len(args) : IsNum(decode(args[i]), 1)
       THEN RetDecodesTo(1)
       ELSE RetDecodesTo(0)

\* a 1 followed by a 0: the last record alone would not decide
AndIsConjunctionWitness ==
  /\ call.op = "secureAnd"
  /\ Len(args) = 2
  /\ FromNumber(1, 0) /\ FromNumber(2, 1)
  /\ RetDecodesTo(0)

\* C8: called with an empty sequence, secureAnd and secureAggregate each
\* fail with InvalidArgument and return no record.
EmptyInputFails ==
  (call.op \in {"secureAnd", "secureAggregate"} /\ args = <<>>)
    => ret.kind = "error"

\* a share string denotes a field element
InField(s) == ParseBigInt(s).ok /\ ParseBigInt(s).val < PRIME

\* C9: every ShareRecord a call returns has shareParty1 and shareParty2 in
\* [0, P).
SharesInField ==
  ret.kind = "record"
    => InField(ret.rec.shares.party1) /\ InField(ret.rec.shares.party2)

\* C10: for every string s, decode(encode(s, f)) equals, as an exact
\* integer, the SHA-256 digest of s read as an integer and reduced modulo P.
StringDecodesToDigest ==
  (call.op = "decode" /\ origin[call.at].kind = "string")
    => IsNum(ret, origin[call.at].v % PRIME)

\* C11: for any string s, two independent encode(s, f) calls, whatever
\* coefficients they draw, yield records whose decode results are identical.
DeterministicString ==
  call.op = "decode"
    => \A j \in 1..Len(args) :
         (origin[j].kind = "string" /\ origin[j] = origin[call.at])
           => decode(args[j]) = ret

\* the same string (digest above P) encoded twice into different shares
DeterministicStringWitness ==
  /\ call.op = "decode" /\ call.at = 2
  /\ Len(args) = 2
  /\ origin[1] = Str(12) /\ origin[2] = Str(12)
  /\ args[1].shares # args[2].shares
  /\ ret = decode(args[1])
  /\ ret.kind = "number"

\* the polynomial a0 + a1*x + ... over the integers, a0 first
RECURSIVE PolySum(_, _, _)
PolySum(coefficients, x, i) ==
  IF i = 0 THEN 0
  ELSE PolySum(coefficients, x, i - 1) + coefficients[i] * Pow(x, i - 1)

\* the polynomial of the last splitSecret call at x, as a field element
PolyAt(x) == PolySum(<<call.secret>> \o call.coeffs, x, Len(call.coeffs) + 1) % PRIME

\* C12: splitSecret(secret, n, k) fails, returning no shares, exactly when
\* k > n; for k <= n it returns exactly n shares, share i being the
\* polynomial evaluated at x = i for i = 1..n (never at x = 0).
SplitContract ==
  call.op = "splitSecret"
    => /\ (ret.kind = "error") <=> (call.k > call.n)
       /\ ret.kind # "error"
            => /\ ret.kind = "shares"
               /\ Len(ret.shares) = call.n
               /\ \A i \in 1..call.n :
                    /\ (ret.shares[i] - PolyAt(i)) % PRIME = 0
                    /\ call.secret \in 0..(PRIME - 1) => ret.shares[i] = PolyAt(i)

\* three shares of 5 + 3x: the values at x = 1, 2, 3
SplitContractWitness ==
  /\ call.op = "splitSecret"
  /\ call.secret = 5 /\ call.n = 3 /\ call.k = 2 /\ call.coeffs = <<3>>
  /\ ret = [kind |-> "shares", shares |-> <<1, 4, 0>>]

\* C13: reconstructSecret called with zero or one share (fewer than the
\* threshold k = 2) fails and returns no value.
ReconstructNeedsTwo ==
  (call.op = "reconstructSecret" /\ call.m < 2)
    => ret = [kind |-> "error", err |-> "Need at least 2 shares"]

\* one of the two shares of a (2,2) split
ReconstructNeedsTwoWitness ==
  /\ call.op = "reconstructSecret"
  /\ call.n = 2 /\ call.k = 2 /\ call.m = 1
  /\ ret.kind = "error"

\* a share string of exactly the padded width, digits only
FixedWidthHex(s) == Len(s) = HexLen /\ \A i \in 1..Len(s) : IsHexDigit(s[i])

\* C14: in every record returned by encode, secureEquality, secureAnd or
\* secureAggregate, shares.party1 and shares.party2 are each exactly 64
\* hexadecimal characters: zero-padded, no sign character, never longer.
SharesFixedWidth ==
  ret.kind = "record"
    => FixedWidthHex(ret.rec.shares.party1) /\ FixedWidthHex(ret.rec.shares.party2)

\* C15: encode has no side effect other than building the record it
\* returns: the party-1 and party-2 share maps, and every other piece of
\* engine state that outlives the call, are the same after it as before.
EncodeKeepsNothing ==
  [][call'.op = "encode" => UNCHANGED <<party1Shares, party2Shares>>]_vars

\* the ids of the records the engine has created so far
CreatedIds == {key[1] : key \in DOMAIN party1Shares}

\* C16: decode, secureEquality, secureAnd, secureAggregate and auditTrail
\* never modify a field of their input records; secureEquality, secureAnd
\* and secureAggregate return a new record whose id differs from the id of
\* every input and of every record created earlier.
InputsUntouched ==
  [][call'.op \in {"decode", "secureEquality", "secureAnd", "secureAggregate", "auditTrail"}
       => /\ args' = args
          /\ (call'.op \in {"secureEquality", "secureAnd", "secureAggregate"}
                /\ ret'.kind = "record")
               => /\ \A i \in 1..Len(args) : ret'.rec.id # args[i].id
                  /\ ret'.rec.id \notin CreatedIds]_vars

\* a comparison of two records made after another request's encode: three
\* records exist, the result is a fourth
InputsUntouchedWitness ==
  /\ call.op = "secureEquality"
  /\ Len(args) = 2
  /\ ret.kind = "record"
  /\ CreatedIds = 1..4
  /\ ret.rec.id = 4
  /\ ret.rec.id \notin {args[1].id, args[2].id}

\* a record one of whose share strings is not a hexadecimal number
Malformed(secureValue) ==
  ~IsHex(secureValue.shares.party1) \/ ~IsHex(secureValue.shares.party2)

\* C17: when a core operation fails (splitSecret with k > n,
\* reconstructSecret with fewer than 2 shares, decode / secureEquality /
\* secureAnd / secureAggregate given a record with a share that is not
\* hexadecimal, at any position of the input), an error is surfaced, no
\* record is returned and the party-share maps are unchanged.
FailureIsAtomic ==
  [][/\ ret'.kind = "error" => UNCHANGED <<party1Shares, party2Shares>>
     /\ (call'.op = "decode" /\ Malformed(args[call'.at])) => ret'.kind = "error"
     /\ (call'.op \in {"secureEquality", "secureAnd", "secureAggregate"}
           /\ \E i \in 1..Len(args) : Malformed(args[i])) => ret'.kind = "error"
     /\ (call'.op = "splitSecret" /\ call'.k > call'.n) => ret'.kind = "error"
     /\ (call'.op = "reconstructSecret" /\ call'.m < 2) => ret'.kind = "error"]_vars

\* the share strings of field elements
FieldShareStrings == {ShareString(v) : v \in 0..(PRIME - 1)}

\* C18: the output of auditTrail(record) is a function of the record's id
\* and metadata only: records that differ only in shares.party1 and
\* shares.party2 produce identical output, which carries no share material.
AuditHidesShares ==
  call.op = "auditTrail"
    => \A p1 \in FieldShareStrings, p2 \in FieldShareStrings :
         auditTrail([args[call.at] EXCEPT !.shares = [party1 |-> p1, party2 |-> p2]])
           = ret.out

\* the audit of the second of two records encoded from the same number
\* with different shares
AuditHidesSharesWitness ==
  /\ call.op = "auditTrail" /\ call.at = 2
  /\ origin[1] = origin[2]
  /\ args[1].shares # args[2].shares
  /\ ret.out.valueId = args[2].id
  /\ ret.out.field = "f"

\* the coefficients in [0, P) with which share i of a (2,2) split of s is v
CoeffsGiving(s, i, v) ==
  {c \in 0..(PRIME - 1) : splitSecret(s, 2, 2, <<c>>).shares[i] = v}

\* C19: for a (2,2) split, each share index i, every value v in [0, P) and
\* every secret s in [0, P), exactly one coefficient in [0, P) makes share i
\* equal to v: the possible values of one share are the same for all secrets.
SingleShareHides ==
  (call.op = "splitSecret" /\ call.n = 2 /\ call.k = 2
     /\ call.secret \in 0..(PRIME - 1))
    => /\ RandomCoeffs = 0..(PRIME - 1)
       /\ \A i \in 1..2 :
            /\ CoeffsGiving(call.secret, i, ret.shares[i]) = {call.coeffs[1]}
            /\ \A s \in 0..(PRIME - 1), v \in 0..(PRIME - 1) :
                 Cardinality(CoeffsGiving(s, i, v)) = 1

\* the shares (1, 4) of 5 under coefficient 3; share 1 is also what the
\* secret 2 gives under coefficient 6
SingleShareHidesWitness ==
  /\ call.op = "splitSecret" /\ call.n = 2 /\ call.k = 2
  /\ call.secret = 5 /\ call.coeffs = <<3>>
  /\ ret.shares = <<1, 4>>
  /\ CoeffsGiving(2, 1, ret.shares[1]) = {6}

\* an engine on which nothing has been called
FreshEngine == [party1Shares |-> <<>>, party2Shares |-> <<>>, nextId |-> 1]

\* what the caller learns from a result: the value it decodes to, or the error
Outcome(r) == IF r.kind = "record" THEN decode(r.rec) ELSE r

\* what secureAnd's return statement gives on a fresh engine, over all
\* coefficients, once its loop has left result
FreshAndOutcomes(result) ==
  {Outcome(AndReturn(FreshEngine, result, coeff).ret) : coeff \in RandomCoeffs}

\* C20: for fixed argument records, the value decode returns and the decoded
\* value of the results of secureEquality, secureAnd and secureAggregate are
\* the same whatever calls were made on the engine before and whatever its
\* party-share maps hold: the same as on an engine nothing was called on.
OrderIndependent ==
  /\ call.op = "decode" => ret = decode(args[call.at])
  /\ call.op = "secureEquality"
       => {Outcome(secureEquality(FreshEngine, args[1], args[2], coeff).ret) :
             coeff \in RandomCoeffs} = {Outcome(ret)}
  /\ call.op = "secureAnd"
       => FreshAndOutcomes(AndLoop(args)) = {Outcome(ret)}
  /\ call.op = "secureAggregate"
       => Outcome(secureAggregate(FreshEngine, args).ret) = Outcome(ret)

\* an aggregate of two records between whose encodes another request encoded
OrderIndependentWitness ==
  /\ call.op = "secureAggregate"
  /\ Len(args) = 2
  /\ args[1].id = 1 /\ args[2].id = 3
  /\ DOMAIN party1Shares = {<<1, 0>>, <<2, 0>>, <<3, 0>>, <<4, 0>>}
  /\ ret.kind = "record"
  /\ Outcome(ret) = Outcome(secureAggregate(FreshEngine, args).ret)

\* the integer a share string of a record denotes
ShareOf(secureValue, party) ==
  IF party = 1 THEN ParseBigInt(secureValue.shares.party1).val
  ELSE ParseBigInt(secureValue.shares.party2).val

\* shareParty1 + shareParty2 summed over the first i arguments, unreduced
RECURSIVE ShareTotal(_)
ShareTotal(i) ==
  IF i = 0 THEN 0
  ELSE ShareTotal(i - 1) + ShareOf(args[i], 1) + ShareOf(args[i], 2)

\* every order in which n arguments can be passed
Orders(n) == {p \in [1..n -> 1..n] : \A i, j \in 1..n : p[i] = p[j] => i = j}

\* C22: for a non-empty input, secureAggregate returns a record whose shares
\* are party1 = floor(T / 2) and party2 = T - party1, T being the sum of both
\* shares of every input record with no reduction modulo PRIME; so
\* party1 + party2 = T, party2 - party1 is 0 or 1, and passing the same
\* records in any other order gives the same two shares.
AggregateHalves ==
  (call.op = "secureAggregate" /\ Len(args) >= 1) =>
    /\ ret.kind = "record"
    /\ LET T == ShareTotal(Len(args))
           p1 == ShareOf(ret.rec, 1)
           p2 == ShareOf(ret.rec, 2)
       IN  /\ 2 * p1 <= T /\ T < 2 * (p1 + 1)
           /\ p2 = T - p1
           /\ p1 + p2 = T
           /\ p2 - p1 \in {0, 1}
    /\ \A p \in Orders(Len(args)) :
         secureAggregate(FreshEngine, [i \in 1..Len(args) |-> args[p[i]]]).ret.rec.shares
           = ret.rec.shares

\* an aggregate of MaxArgs records whose share total is odd and above PRIME
AggregateHalvesWitness ==
  /\ call.op = "secureAggregate"
  /\ Len(args) = MaxArgs
  /\ ShareTotal(Len(args)) > PRIME
  /\ ShareTotal(Len(args)) % 2 = 1
  /\ args[1].shares # args[2].shares
  /\ ret.kind = "record"
  /\ ShareOf(ret.rec, 2) = ShareOf(ret.rec, 1) + 1

\* the getter returned a hex string that denotes n
IsHexOf(r, n) == r.kind = "string" /\ IsHex(r.v) /\ HexValue(r.v) = n

\* C30: for every record r returned by encode (any secret, any coefficient,
\* share values equal to 0 included), getParty1Share(r.id) and
\* getParty2Share(r.id) return a defined hex string denoting the integer
\* r.shares.party1, r.shares.party2 denotes; they return undefined only for
\* ids that no operation has created.
SharesRetrievable ==
  /\ call.op = "getParty1Share" =>
       /\ \A i \in 1..Len(args) :
            args[i].id = call.at => IsHexOf(ret, ShareOf(args[i], 1))
       /\ ret = Undefined => <<call.at, 0>> \notin DOMAIN party1Shares
  /\ call.op = "getParty2Share" =>
       /\ \A i \in 1..Len(args) :
            args[i].id = call.at => IsHexOf(ret, ShareOf(args[i], 2))
       /\ ret = Undefined => <<call.at, 1>> \notin DOMAIN party2Shares

\* the values of the moduli a call computes with
ModulusValues(op) == {BigOfDecimal(literal) : literal \in ModuliUsed(op)}

\* C21: the modulus used by splitSecret, reconstructSecret, encode and
\* secureEquality is one single constant, and it is the 256-bit secp256k1
\* field prime 2^256 - 2^32 - 977: whatever call was made, it computed with
\* that one value.
ModulusIsSecp256k1 ==
  call.op # "none" => ModulusValues(call.op) \subseteq {Secp256k1Prime}

\* what the calls compute with: one value, 2^255 - 19
ModulusIsCurve25519 ==
  call.op # "none" => ModulusValues(call.op) \subseteq {Curve25519Prime}

(***************************************************************************)
(* The server: the identities table and the routes that read and write it. *)
(* A route handler runs to its next await in one step; the database        *)
(* executes one statement at a time.  PRIME is scaled, so the ages are     *)
(* too: 13 to MinAge, 18 to AdultAge, the seeded 35 to SeedAge.  The blob  *)
(* encryptedData keeps the fields a route reads (age, verificationCode,    *)
(* verificationCodeHash, userId); the records the routes encode are the    *)
(* records encode returns on an engine, and the engine's own maps, which   *)
(* no route reads, stay with the engine specifications above.              *)
(***************************************************************************)
MinAge == 2
AdultAge == 3
SeedAge == 4

\* the most requests the server is sent, and the most registrations among them
MaxRequests == 3
MaxRegistrations == 2

\* the authenticated callers (req.user.email)
Emails == {"a@x", "b@x"}

\* the passport ids presented: the seeded one and another
SeedPassport == "A1234567"
Passports == {SeedPassport, "B7654321"}

\* the verification codes presented or drawn: the seeded one and another
SeedCode == "AB12CD34"
Codes == {SeedCode, "Q7W8E9R0"}

\* createHash('sha256').update(s).digest('hex'), read as a number: no two
\* strings share a digest
Sha256 ==
  (SeedPassport :> 1) @@ ("B7654321" :> 2) @@ (SeedCode :> 13) @@ ("Q7W8E9R0" :> 5)

\* the ages a registration form carries
Ages == {MinAge - 1, MinAge, AdultAge}

\* the verification code a registration form carries
FormCodes == {SeedCode}

\* the coefficients the routes' encode calls draw: zero and a non-zero one
RouteCoeffs == {c \in RandomCoeffs : c \in {0, 3}}

\* mpc.encode(value, fieldName) as a route calls it: the record returned
Enc(value, fieldName, coeff) == encode(FreshEngine, value, fieldName, coeff).ret.rec

\* mpc.encode(code, 'verificationCode') for a code string
EncCode(code, coeff) == Enc(Str(Sha256[code]), "verificationCode", coeff)

\* userId values: the signed `TAK-checksum-id` and the fallback `TAK-id`
UserId(checksum, id) == [kind |-> "userId", checksum |-> checksum, id |-> id]

\* a hex digest stored as text
Hex(d) == [kind |-> "hex", v |-> d]

\* the decimal digits of a non-negative integer
DecimalDigits == <<"0", "1", "2", "3", "4", "5", "6", "7", "8", "9">>

RECURSIVE DecimalOf(_)
DecimalOf(a) ==
  IF a < 10 THEN <<DecimalDigits[a + 1]>>
  ELSE Append(DecimalOf(a \div 10), DecimalDigits[(a % 10) + 1])

\* bigint.toString(): the decimal digits
BigIntToString(b) == IF b < 0 THEN <<"-">> \o DecimalOf(-b) ELSE DecimalOf(b)

\* String(x) for a number x holding an integer: the decimal digits below
\* 1e21 (scaled to ExponentFrom), exponent notation from there on
ExponentFrom == 6
NumberToString(x) ==
  IF Abs(x) < ExponentFrom THEN BigIntToString(x)
  ELSE BigIntToString(x) \o <<"e", "+", "0">>

\* the row of the table with a given id
RowIds == 1..Len(identities)

\* storage.getIdentityByHash / getIdentityByOwnerEmail: the ids selected
IdsByHash(hash) == {i \in RowIds : identities[i].passportHash = hash}
IdsByOwnerEmail(email) == {i \in RowIds : identities[i].ownerEmail = email}

\* a table whose only UNIQUE constraint is the one on owner_email
UniqueOwnerOnly(row) == IdsByOwnerEmail(row.ownerEmail) # {}

\* the UNIQUE constraints of the table: passport_hash and owner_email
UniqueViolation(row) ==
  \/ IdsByHash(row.passportHash) # {}
  \/ IdsByOwnerEmail(row.ownerEmail) # {}

\* the requests received so far, and the registrations among them
Received == Len(responses) + Len(handlers)
Registrations ==
  Cardinality({i \in 1..Len(responses) : responses[i].req.route = "register"})
    + Cardinality({i \in 1..Len(handlers) : handlers[i].req.route = "register"})

\* res.status(..).json(..)
Respond(response) == responses' = Append(responses, response)

\* the handler at position i is done
Finish(i) ==
  handlers' = [j \in 1..(Len(handlers) - 1) |-> IF j < i THEN handlers[j] ELSE handlers[j + 1]]

\* the handler at position i goes on waiting, as h
Continue(i, h) == handlers' = [handlers EXCEPT ![i] = h]

\* the table once registerRoutes has run seedDatabase on an empty database
SeedRow(ageCoeff, codeCoeff) ==
  [id |-> 1,
   passportHash |-> Hex(Sha256[SeedPassport]),
   encryptedData |-> [age |-> Enc(Num(SeedAge), "age", ageCoeff),
                      verificationCode |-> EncCode(SeedCode, codeCoeff),
                      verificationCodeHash |-> Hex(Sha256[SeedCode]),
                      userId |-> UserId(TRUE, 1)],
   ownerEmail |-> "seed@local",
   issued |-> TRUE,
   checkIn |-> FALSE]

InitServer ==
  /\ party1Shares = <<>>
  /\ party2Shares = <<>>
  /\ nextId = 1
  /\ args = <<>>
  /\ origin = <<>>
  /\ call = [op |-> "none"]
  /\ ret = [kind |-> "none"]
  /\ \E ageCoeff \in RouteCoeffs, codeCoeff \in RouteCoeffs :
       identities = <<SeedRow(ageCoeff, codeCoeff)>>
  /\ handlers = <<>>
  /\ responses = <<>>
  /\ NoClients

\* POST /api/identities/register up to its insert: the checks, the encodes
\* and the duplicate lookup.  stored records whether a row for the passport
\* hash was in the table when the request arrived.
RegisterArrive ==
  /\ Received < MaxRequests
  /\ Registrations < MaxRegistrations
  /\ \E email \in Emails, passportId \in Passports, age \in Ages, code \in FormCodes,
        ageCoeff \in RouteCoeffs, codeCoeff \in RouteCoeffs :
       LET hash == Hex(Sha256[passportId])
           req == [route |-> "register", email |-> email, passportId |-> passportId,
                   age |-> age, stored |-> IdsByHash(hash) # {}]
           encryptedData == [age |-> Enc(Num(age), "age", ageCoeff),
                             verificationCode |-> EncCode(code, codeCoeff),
                             verificationCodeHash |-> Undefined,
                             userId |-> Undefined]
       IN  IF age < MinAge
           THEN /\ Respond([req |-> req, status |-> 403])
                /\ UNCHANGED <<identities, handlers>>
           ELSE IF IdsByHash(hash) # {}
           THEN /\ Respond([req |-> req, status |-> 409])
                /\ UNCHANGED <<identities, handlers>>
           ELSE /\ handlers' = Append(handlers,
                      [req |-> req, pc |-> "insert",
                       row |-> [passportHash |-> hash, encryptedData |-> encryptedData,
                                ownerEmail |-> email, issued |-> TRUE, checkIn |-> TRUE]])
                /\ UNCHANGED <<identities, responses>>
  /\ UNCHANGED <<engineVars, clientVars>>

\* storage.createIdentity executes: the row is inserted unless a UNIQUE
\* constraint rejects it, and then the route's catch answers 400
RegisterInsert ==
  /\ \E i \in 1..Len(handlers) :
       /\ handlers[i].req.route = "register"
       /\ handlers[i].pc = "insert"
       /\ IF UniqueViolation(handlers[i].row)
          THEN /\ Respond([req |-> handlers[i].req, status |-> 400])
               /\ Finish(i)
               /\ UNCHANGED identities
          ELSE LET id == Len(identities) + 1
                   row == handlers[i].row
               IN  /\ identities' = Append(identities,
                         [id |-> id, passportHash |-> row.passportHash,
                          encryptedData |-> row.encryptedData,
                          ownerEmail |-> row.ownerEmail,
                          issued |-> row.issued, checkIn |-> row.checkIn])
                   /\ Continue(i, [req |-> handlers[i].req, pc |-> "update", id |-> id,
                                   storedData |-> [row.encryptedData EXCEPT
                                                     !.userId = UserId(TRUE, id)]])
                   /\ UNCHANGED responses
  /\ UNCHANGED <<engineVars, clientVars>>

\* the update that attaches userId executes, or fails and is logged; 201
RegisterUpdate ==
  /\ \E i \in 1..Len(handlers), ok \in BOOLEAN :
       /\ handlers[i].req.route = "register"
       /\ handlers[i].pc = "update"
       /\ identities' = IF ok
                        THEN [identities EXCEPT ![handlers[i].id].encryptedData =
                                                  handlers[i].storedData]
                        ELSE identities
       /\ Respond([req |-> handlers[i].req, status |-> 201, id |-> handlers[i].id,
                   minor |-> handlers[i].req.age < AdultAge])
       /\ Finish(i)
  /\ UNCHANGED <<engineVars, clientVars>>

\* POST /api/identities/generate-code up to its update: the caller's row is
\* read, a code is drawn and the new blob is built from the row read
GenerateArrive ==
  /\ Received < MaxRequests
  /\ \E email \in Emails :
       LET req == [route |-> "generate-code", email |-> email]
           ids == IdsByOwnerEmail(email)
       IN  IF ids = {} \/ \E id \in ids : ~identities[id].issued \/ ~identities[id].checkIn
           THEN /\ Respond([req |-> req, status |-> 403])
                /\ UNCHANGED <<identities, handlers>>
           ELSE \E id \in ids, code \in Codes, coeff \in RouteCoeffs :
                  /\ handlers' = Append(handlers,
                        [req |-> req, pc |-> "update", id |-> id, code |-> code,
                         storedData |->
                           [identities[id].encryptedData EXCEPT
                              !.verificationCode = EncCode(code, coeff),
                              !.verificationCodeHash = Hex(Sha256[code]),
                              !.userId = IF @ = Undefined THEN UserId(FALSE, id) ELSE @]])
                  /\ UNCHANGED <<identities, responses>>
  /\ UNCHANGED <<engineVars, clientVars>>

\* the update that stores the new blob executes, or fails and is logged;
\* the code is returned either way
GenerateUpdate ==
  /\ \E i \in 1..Len(handlers), ok \in BOOLEAN :
       /\ handlers[i].req.route = "generate-code"
       /\ handlers[i].pc = "update"
       /\ identities' = IF ok
                        THEN [identities EXCEPT ![handlers[i].id].encryptedData =
                                                  handlers[i].storedData]
                        ELSE identities
       /\ Respond([req |-> handlers[i].req, status |-> 200, code |-> handlers[i].code,
                   identityId |-> handlers[i].id])
       /\ Finish(i)
  /\ UNCHANGED <<engineVars, clientVars>>

\* decodedStoredCode === decodedClientCode, false when a decode throws
MpcCodeVerified(stored, client) ==
  LET decodedStoredCode == decode(stored)
      decodedClientCode == decode(client)
  IN  /\ decodedStoredCode.kind = "number"
      /\ decodedClientCode.kind = "number"
      /\ decodedStoredCode.val = decodedClientCode.val

\* POST /api/checkout/verify: the rows come in no stated order, the first
\* whose verificationCodeHash is the hash of the code is the match
CheckoutVerify ==
  /\ Received < MaxRequests
  /\ \E code \in Codes :
       LET req == [route |-> "checkout", code |-> code]
           matches == {i \in RowIds :
                         identities[i].encryptedData.verificationCodeHash
                           = Hex(Sha256[code])}
       IN  IF matches = {}
           THEN Respond([req |-> req, status |-> 404, verified |-> FALSE])
           ELSE \E match \in matches, coeff \in RouteCoeffs :
                  LET storedData == identities[match].encryptedData
                  IN  Respond([req |-> req, status |-> 200,
                               verified |-> MpcCodeVerified(storedData.verificationCode,
                                                            EncCode(code, coeff)),
                               userId |-> storedData.userId])
  /\ UNCHANGED <<identities, handlers>>
  /\ UNCHANGED <<engineVars, clientVars>>

\* codeMatches of POST /api/verify: String(decoded) against the decimal
\* string of SHA256(code) mod PRIME
CodeMatches(stored, providedCode) ==
  LET expectedBigInt == JsRem(Sha256[providedCode], PRIME)
      decoded == decode(stored)
  IN  /\ decoded.kind = "number"
      /\ NumberToString(decoded.val) = BigIntToString(expectedBigInt)

\* isAdult of POST /api/verify
IsAdult(stored) ==
  LET decodedAge == decode(stored)
  IN  decodedAge.kind = "number" /\ decodedAge.val >= AdultAge

\* POST /api/verify
Verify ==
  /\ Received < MaxRequests
  /\ \E passportId \in Passports, code \in Codes, coeff \in RouteCoeffs :
       LET hash == Hex(Sha256[passportId])
           req == [route |-> "verify", passportHash |-> hash, code |-> code]
           ids == IdsByHash(hash)
       IN  IF ids = {}
           THEN Respond([req |-> req, status |-> 404])
           ELSE \E id \in ids :
                  LET storedData == identities[id].encryptedData
                      success == CodeMatches(storedData.verificationCode, code)
                                   /\ IsAdult(storedData.age)
                  IN  Respond([req |-> req, status |-> 200, id |-> id,
                               encryptedResult |->
                                 IF success
                                 THEN Enc(Num(1), "verification_success", coeff)
                                 ELSE Enc(Num(0), "verification_failure", coeff)])
  /\ UNCHANGED <<identities, handlers>>
  /\ UNCHANGED <<engineVars, clientVars>>

NextServer ==
  \/ RegisterArrive
  \/ RegisterInsert
  \/ RegisterUpdate
  \/ GenerateArrive
  \/ GenerateUpdate
  \/ CheckoutVerify
  \/ Verify

\* the server, seeded, answering up to MaxRequests requests
SpecServer == InitServer /\ [][NextServer]_vars

NextRegister ==
  \/ RegisterArrive
  \/ RegisterInsert
  \/ RegisterUpdate

\* the server, seeded, answering registrations only
SpecRegister == InitServer /\ [][NextRegister]_vars

\* the responses a route has sent
ResponsesOf(route) == {i \in 1..Len(responses) : responses[i].req.route = route}

\* the age stored in a row, as decode gives it
StoredAge(id) == decode(identities[id].encryptedData.age).val

\* C23: POST /api/checkout/verify answers verified = true for a code only if
\* the code belongs to an issued identity whose holder is of age (stored age
\* at least AdultAge); no code generated for an identity registered with an
\* age from MinAge to AdultAge - 1 is ever answered verified = true.
CheckoutOnlyAdults ==
  \A i \in ResponsesOf("checkout") :
    responses[i].verified =>
      /\ identities[responses[i].userId.id].issued
      /\ StoredAge(responses[i].userId.id) >= AdultAge

\* generate-code answered 200 with the code, after response i and before j
IssuedBetween(code, i, j) ==
  \E k \in ResponsesOf("generate-code") :
    /\ i < k /\ k < j
    /\ responses[k].status = 200
    /\ responses[k].code = code

\* C24: verification codes are one-time: once POST /api/checkout/verify has
\* answered verified = true for a code, every later checkout/verify request
\* with that code is answered not verified, unless generate-code has issued
\* that code again in between.
CodesAreOneTime ==
  \A i, j \in ResponsesOf("checkout") :
    (/\ i < j
     /\ responses[i].req.code = responses[j].req.code
     /\ responses[i].verified
     /\ ~IssuedBetween(responses[i].req.code, i, j))
      => ~responses[j].verified

\* the secret the shares of a stored record hold, exactly
StoredSecret(secureValue) ==
  reconstructSecret(<<ShareOf(secureValue, 1), ShareOf(secureValue, 2)>>).val

\* the code is the string that was encoded into the record (no two codes of
\* Codes share a secret)
IsCodeOf(code, secureValue) == StoredSecret(secureValue) = SecretValue(Str(Sha256[code]))

\* C25: POST /api/verify returns an encryptedResult that decodes to 1 when
\* the provided code is the string encoded into the identity's stored
\* verificationCode record and the stored age decodes to AdultAge or more,
\* and one that decodes to 0 otherwise.
VerifyDecodesToFlag ==
  LET n == Len(responses)
  IN  (n > 0 /\ responses[n].req.route = "verify" /\ responses[n].status = 200) =>
        LET storedData == identities[responses[n].id].encryptedData
            expected == IF IsCodeOf(responses[n].req.code, storedData.verificationCode)
                           /\ StoredAge(responses[n].id) >= AdultAge
                        THEN 1 ELSE 0
        IN  decode(responses[n].encryptedResult).val = expected

\* a generate-code for the identity completed after response i and before j
GeneratedBetween(identityId, i, j) ==
  \E k \in ResponsesOf("generate-code") :
    /\ i < k /\ k < j
    /\ responses[k].status = 200
    /\ responses[k].identityId = identityId

\* C28: every code returned in a 200 response of generate-code has been
\* persisted on the caller's identity: if no later generate-code for that
\* identity completes, a following POST /api/checkout/verify with that code
\* is answered verified = true, also when the update inside generate-code
\* fails and when two generate-code requests for the identity run
\* concurrently.
ReturnedCodeIsPersisted ==
  \A i \in ResponsesOf("generate-code"), j \in ResponsesOf("checkout") :
    (/\ i < j
     /\ responses[i].status = 200
     /\ responses[j].req.code = responses[i].code
     /\ ~GeneratedBetween(responses[i].identityId, i, j))
      => responses[j].verified

\* at most one row per passport hash
OneRowPerPassport ==
  \A i, j \in RowIds :
    identities[i].passportHash = identities[j].passportHash => i = j

\* the rows are the seeded one and one for each registration that got past
\* its insert: a request answered 400, 403 or 409 stored nothing
RowsAreInserts ==
  Len(identities) =
    1 + Cardinality({i \in ResponsesOf("register") : responses[i].status = 201})
      + Cardinality({i \in 1..Len(handlers) : handlers[i].pc = "update"})

\* C26: under every interleaving of POST /api/identities/register requests,
\* two concurrent requests for one passport id included, at most one row is
\* ever stored per passport hash, and a request that arrives when a row for
\* its passport hash is stored is answered 409 and stores nothing.
RegisterOncePerPassport ==
  /\ OneRowPerPassport
  /\ RowsAreInserts
  /\ \A i \in ResponsesOf("register") :
       responses[i].req.stored => responses[i].status = 409

\* C26, as the route is written: the age check comes before the duplicate
\* lookup, so it is a request that passes the route's validation and arrives
\* when a row for its passport hash is stored that is answered 409; one that
\* fails the validation is answered 403; neither stores a row.  At most one
\* row is ever stored per passport hash.
RegisterOncePerValidPassport ==
  /\ OneRowPerPassport
  /\ RowsAreInserts
  /\ \A i \in ResponsesOf("register") :
       /\ responses[i].req.age < MinAge => responses[i].status = 403
       /\ (responses[i].req.stored /\ responses[i].req.age >= MinAge)
            => responses[i].status = 409

\* two callers registered one passport id at once: both passed the lookup,
\* one insert stored the row and the other was rejected and answered 400
RegisterOncePerValidPassportWitness ==
  \E i, j \in ResponsesOf("register") :
    /\ responses[i].req.passportId = responses[j].req.passportId
    /\ responses[i].req.email # responses[j].req.email
    /\ ~responses[i].req.stored /\ ~responses[j].req.stored
    /\ responses[i].status = 201
    /\ responses[j].status = 400
    /\ Cardinality(IdsByHash(Hex(Sha256[responses[i].req.passportId]))) = 1

\* ---------------------------------------------------------------------------
\* Authentication: the auth routes of the server and the client's pages
\* ---------------------------------------------------------------------------
\* Each page handler is one step: the fetch, the route's work on the users
\* table and the handler's reaction to the response.  The routes keep no
\* state between requests other than the users table.  server/lib/auth is
\* modelled by what its names promise: verifyPassword accepts exactly the
\* password that was hashed, verifyTOTPToken accepts exactly the code the
\* authenticator shows for the secret.  Every account gets a TOTP secret at
\* signup, so the email-code fallback of verify-2fa is never taken.

Passwords == {"pw1", "pw2"}
Secrets == {"JBSWY3DP"}
CurrentCode == [secret \in Secrets |-> "12345678"]
TotpCodes == {CurrentCode[secret] : secret \in Secrets} \cup {"00000000"}

hashPassword(password) == [bcrypt |-> password]

verifyPassword(password, hash) == hash = hashPassword(password)

generateTOTPSecret == Secrets

verifyTOTPToken(secret, code) == code = CurrentCode[secret]

getUserByEmail(email) == IF email \in DOMAIN users THEN users[email] ELSE None

createUser(email, passwordHash, totpSecret) ==
  [id |-> Cardinality(DOMAIN users) + 1,
   email |-> email,
   passwordHash |-> passwordHash,
   totpSecret |-> totpSecret,
   twoFAVerified |-> FALSE]

JwtSign(user) == [email |-> user.email, userId |-> user.id]

\* POST /api/auth/signup
signup(email, password, totpSecret) ==
  IF getUserByEmail(email) # None
  THEN [status |-> 400, users |-> users, body |-> None]
  ELSE LET user == createUser(email, hashPassword(password), totpSecret) IN
       [status |-> 201,
        users |-> (email :> user) @@ users,
        body |-> [userId |-> user.id, requiresTwoFA |-> TRUE]]

\* POST /api/auth/login
login(email, password) ==
  LET user == getUserByEmail(email) IN
  IF user = None
  THEN [status |-> 401, users |-> users, body |-> None]
  ELSE IF ~verifyPassword(password, user.passwordHash)
  THEN [status |-> 401, users |-> users, body |-> None]
  ELSE [status |-> 200,
        users |-> users,
        body |-> [userId |-> user.id, requiresTwoFA |-> TRUE]]

\* POST /api/auth/verify-2fa
verify2fa(email, code) ==
  LET user == getUserByEmail(email) IN
  IF user = None
  THEN [status |-> 401, users |-> users, body |-> None]
  ELSE IF ~verifyTOTPToken(user.totpSecret, code)
  THEN [status |-> 401, users |-> users, body |-> None]
  ELSE [status |-> 200,
        users |-> [users EXCEPT ![email].twoFAVerified = TRUE],
        body |-> [userId |-> user.id,
                  email |-> user.email,
                  authenticated |-> TRUE,
                  token |-> JwtSign(user)]]

ResponseOk(r) == r.status >= 200 /\ r.status < 300

\* the client passed the password check for the email and has not left the
\* authentication attempt since
PassedPassword(client, email) ==
  /\ client \in Tabs
  /\ tabs[client].step = "2fa"
  /\ tabs[client].email = email

Issued(client, r) ==
  IF ResponseOk(r)
  THEN [client |-> client,
        token |-> r.body.token,
        passed |-> PassedPassword(client, r.body.token.email)]
  ELSE issued

\* AuthPage.handleCredentialsSubmit
HandleCredentialsSubmit(tab) ==
  /\ tabs[tab].step = "credentials"
  /\ \E mode \in {"signup", "login"}, email \in Emails,
        password \in Passwords, totpSecret \in generateTOTPSecret :
       LET r == IF mode = "signup"
                THEN signup(email, password, totpSecret)
                ELSE login(email, password) IN
       /\ users' = r.users
       /\ tabs' = [tabs EXCEPT ![tab].email = email,
                               ![tab].step =
                                 IF ResponseOk(r) THEN "2fa" ELSE @]
  /\ UNCHANGED <<localStorage, issued, sent, loggedOut>>
  /\ UNCHANGED <<engineVars, serverVars>>

\* AuthPage.handleTwoFASubmit, and App.handleAuthSuccess when it succeeds
HandleTwoFASubmit(tab) ==
  /\ tabs[tab].step = "2fa"
  /\ \E code \in TotpCodes :
       LET r == verify2fa(tabs[tab].email, code)
           newAuthState == [isAuthenticated |-> TRUE, email |-> r.body.email]
       IN
       /\ users' = r.users
       /\ issued' = Issued(tab, r)
       /\ IF ResponseOk(r)
          THEN /\ localStorage' = [authState |-> newAuthState,
                                   taakad_token |-> r.body.token]
               /\ tabs' = [tabs EXCEPT ![tab] =
                             [FreshTab EXCEPT !.auth = newAuthState]]
               /\ loggedOut' = FALSE
          ELSE UNCHANGED <<localStorage, tabs, loggedOut>>
  /\ UNCHANGED sent
  /\ UNCHANGED <<engineVars, serverVars>>

\* a client that is not the app posts an email and a code to verify-2fa
PostVerify2FA ==
  /\ \E email \in Emails, code \in TotpCodes :
       LET r == verify2fa(email, code) IN
       /\ users' = r.users
       /\ issued' = Issued("http", r)
  /\ UNCHANGED <<localStorage, tabs, sent, loggedOut>>
  /\ UNCHANGED <<engineVars, serverVars>>

\* App mounting in a tab: the page is loaded or reloaded
Mount(tab) ==
  /\ tabs' = [tabs EXCEPT ![tab] =
                IF localStorage.authState # None
                THEN [FreshTab EXCEPT !.auth = localStorage.authState]
                ELSE FreshTab]
  /\ UNCHANGED <<users, localStorage, issued, sent, loggedOut>>
  /\ UNCHANGED <<engineVars, serverVars>>

\* App.handleLogout, offered where the tab shows the authenticated pages
HandleLogout(tab) ==
  /\ tabs[tab].auth.isAuthenticated
  /\ tabs' = [tabs EXCEPT ![tab].auth =
                [isAuthenticated |-> FALSE, email |-> None]]
  /\ localStorage' = [localStorage EXCEPT !.authState = None]
  /\ loggedOut' = TRUE
  /\ UNCHANGED <<users, issued, sent>>
  /\ UNCHANGED <<engineVars, serverVars>>

\* the headers GenerateCode.handleGenerate and the use-identities hooks build
RequestHeaders ==
  IF localStorage.taakad_token # None
  THEN [Authorization |-> [bearer |-> localStorage.taakad_token]]
  ELSE [Authorization |-> None]

\* a page of the authenticated routes sends a request
HandleGenerate(tab) ==
  /\ tabs[tab].auth.isAuthenticated
  /\ sent' = [tab |-> tab,
               headers |-> RequestHeaders,
               afterLogout |-> loggedOut]
  /\ UNCHANGED <<users, localStorage, tabs, issued, loggedOut>>
  /\ UNCHANGED <<engineVars, serverVars>>

NextAuth ==
  \/ \E tab \in Tabs : HandleCredentialsSubmit(tab)
  \/ \E tab \in Tabs : HandleTwoFASubmit(tab)
  \/ PostVerify2FA
  \/ \E tab \in Tabs : Mount(tab)
  \/ \E tab \in Tabs : HandleLogout(tab)
  \/ \E tab \in Tabs : HandleGenerate(tab)

SpecAuth == Init /\ [][NextAuth]_vars

\* C27: every JWT the server issues for an email goes to a client that, in
\* the same authentication attempt, first passed the password check for that
\* email; a client that only posts the email and a valid code gets none.
TokenOnlyAfterPassword ==
  issued # None => issued.passed

\* C29: once the client has logged out, and until a new 2FA verification
\* succeeds, neither the saved authState nor the saved taakad_token is in
\* localStorage, and no request the pages send carries Authorization.
LogoutClearsCredentials ==
  /\ loggedOut =>
       /\ localStorage.authState = None
       /\ localStorage.taakad_token = None
  /\ (sent # None /\ sent.afterLogout) => sent.headers.Authorization = None

=============================================================================
